---- MODULE Spec2Model ----
(***************************************************************************)
(* Model of validation_service/core/validator.py: BaseValidator,           *)
(* RawValidator and SourceValidator.  One validator object is built over a *)
(* file tree; validate() runs _check_folders, _check_files and             *)
(* _generate_report, appending findings to self.errors.                    *)
(*                                                                         *)
(* Representation.  A path is the sequence of its components (Path(".")    *)
(* is <<>>); str(path) is that sequence read as text, so a bare name "a"   *)
(* is <<"a">>.  An f-string is the sequence <<template, arg, ...>>, a path *)
(* argument being spliced in component by component.  A data frame is a    *)
(* record [cols, rows]; a cell is one of the value classes "null" (empty   *)
(* cell, NaN), "num" (numeric literal), "date" (date text), "text" (any    *)
(* other text).                                                            *)
(***************************************************************************)
EXTENDS Naturals, Sequences, FiniteSets, TLC

VARIABLES
    kind,          \* "raw" (RawValidator) or "source" (SourceValidator)
    config,        \* self.raw_config / self.source_config
    fs,            \* the file tree under base_path, and base_path itself
    errors,        \* self.errors
    pc,            \* position inside validate(), "returned" or "raised"
    mark,          \* len(self.errors) when the current validate() call began
    listing,       \* the order in which iterdir() yields each folder's entries
    report_dir,    \* whether base_path/validation_report exists
    reports        \* the rows written to each report file, in order of writing

vars == <<kind, config, fs, listing, errors, pc, mark, report_dir, reports>>

(* Bounds of the model: the rows of a file read by a SourceValidator and by a *)
(* RawValidator (which reads df.columns alone), and the validate() calls on   *)
(* one object.                                                                *)
MaxRows == 2
MaxRawRows == 1
MaxRuns == 2

(***************************************************************************)
(* Generic helpers                                                         *)
(***************************************************************************)
Range(s) == {s[i] : i \in 1..Len(s)}

RECURSIVE SeqsUpTo(_, _)
SeqsUpTo(S, n) ==
    IF n = 0 THEN {<<>>}
    ELSE LET shorter == SeqsUpTo(S, n - 1)
         IN  shorter \cup {Append(s, x) : s \in {t \in shorter : Len(t) = n - 1}, x \in S}

Orders(S) == {s \in [1..Cardinality(S) -> S] : Range(s) = S}

\* dict.get(key, default)
Get(d, key, default) == IF key \in DOMAIN d THEN d[key] ELSE default

\* the keys of an ordered mapping kept as a sequence of <<key, value>> pairs
Keys(items) == [i \in 1..Len(items) |-> items[i][1]]

(***************************************************************************)
(* Paths                                                                   *)
(***************************************************************************)
\* a slip: the folder's bare name instead of its path
JoinPath_NameOnly(path, name) == <<name>>

\* base_path / name
JoinPath(path, name) == Append(path, name)

\* file_path.name, file_path.parent
PathName(path) == path[Len(path)]
PathParent(path) == SubSeq(path, 1, Len(path) - 1)

\* file_path.suffix, over the file names of the model
Suffix(name) ==
    CASE name = "x.csv" -> ".csv"
      [] name = "y.csv" -> ".csv"
      [] name = "z.txt" -> ".txt"
      [] OTHER -> ""

(***************************************************************************)
(* The file tree.  fs.dirs[folder] is [st, entries]: st is "absent",       *)
(* "noperm" (a directory whose listing raises PermissionError) or "dir";   *)
(* entries maps each entry name to [isfile, readable, cols, rows].         *)
(***************************************************************************)
Folders == {"a", "b"}

FolderOf(path) == PathName(path)

\* folder_path.exists() for folder_path = base_path / folder
FolderExists(tree, folder) ==
    tree.baseExists /\ tree.dirs[folder].st # "absent"

\* file_path.exists() for file_path = base_path / folder / file_name
FileExists(tree, folder, file_name) ==
    FolderExists(tree, folder) /\ file_name \in DOMAIN tree.dirs[folder].entries

\* folder_path.iterdir() raises on a directory that cannot be listed
ListingRaises(tree, folder) == tree.dirs[folder].st = "noperm"

EntryNames(tree, folder) == DOMAIN tree.dirs[folder].entries

(***************************************************************************)
(* Findings                                                                *)
(***************************************************************************)
Finding(level, text, file_name, folder_name, line_number) ==
    [error_level |-> level, error_text |-> text, file_name |-> file_name,
     folder_name |-> folder_name, line_number |-> line_number]

\* the four location fields every file-level finding carries
FileFinding(level, text, file_path, line_number) ==
    Finding(level, text, PathName(file_path), PathParent(file_path), line_number)

(***************************************************************************)
(* BaseValidator._check_folders                                            *)
(***************************************************************************)
FolderMissingFinding(folder, folder_path) ==
    Finding("error", <<"Required folder '{}' is missing", folder>>, "", folder_path, "")

\* a slip: the empty folder reported as an error
FolderEmptyFinding_AsError(folder, folder_path) ==
    Finding("error", <<"Folder '{}' does not contain any file", folder>>, "",
            folder_path, "")

FolderEmptyFinding(folder, folder_path) ==
    Finding("warning", <<"Folder '{}' does not contain any file", folder>>, "",
            folder_path, "")

\* The loop from its i-th folder on: the findings appended and whether
\* iterdir() raised (the findings appended before the raise stay).
RECURSIVE check_folders(_, _, _, _)
check_folders(errs, tree, required_folders, i) ==
    IF i > Len(required_folders) THEN [errors |-> errs, raised |-> FALSE]
    ELSE LET folder == required_folders[i]
             folder_path == JoinPath(tree.base, folder)
         IN  IF ~FolderExists(tree, folder)
             THEN check_folders(Append(errs, FolderMissingFinding(folder, folder_path)),
                                tree, required_folders, i + 1)
             ELSE IF ListingRaises(tree, folder)
             THEN [errors |-> errs, raised |-> TRUE]
             ELSE IF EntryNames(tree, folder) = {}
             THEN check_folders(Append(errs, FolderEmptyFinding(folder, folder_path)),
                                tree, required_folders, i + 1)
             ELSE check_folders(errs, tree, required_folders, i + 1)

(***************************************************************************)
(* The type checks of SourceValidator._validate_column_type                *)
(***************************************************************************)
\* pd.isna(value)
IsNa(value) == value = "null"

\* a slip: a numeric check that accepts everything
ToNumericRaises_Never(value) == FALSE

\* pd.to_numeric(value) raises ValueError: text that is no numeric literal
ToNumericRaises(value) == value \in {"date", "text"}

\* pd.to_datetime(value) raises ValueError: text that is no date (a number is
\* taken as an offset from the epoch)
ToDatetimeRaises(value) == value = "text"

\* enumerate(df[column], start=2)
EnumerateStart == 2

\* a slip: enumerate() left at its default start, counted from the first data row
LineNumber_FromOne(i) == i

\* idx of the i-th data row (i counted from 1)
LineNumber(i) == EnumerateStart + (i - 1)

WrongDatatypeFinding(column, file_path, idx) ==
    FileFinding("error", <<"Wrong datatype for the column {}", column>>, file_path,
                ToString(idx))

NullFinding(column, file_path, idx) ==
    FileFinding("error", <<"NULL value not allowed for the column {}", column>>,
                file_path, ToString(idx))

UnsupportedTypeFinding(expected_type, column, file_path) ==
    FileFinding("error", <<"Unsupported data type '{}' for column {}", expected_type,
                           column>>, file_path, "")

\* The body of the row loop for one cell: the findings it appends.
check_cell(value, column, expected_type, file_path, nullable, idx) ==
    IF IsNa(value)
    THEN IF ~nullable THEN <<NullFinding(column, file_path, idx)>> ELSE <<>>
    ELSE IF expected_type = "int"
    THEN IF ToNumericRaises(value)
         THEN <<WrongDatatypeFinding(column, file_path, idx)>> ELSE <<>>
    ELSE IF expected_type = "float"
    THEN IF ToNumericRaises(value)
         THEN <<WrongDatatypeFinding(column, file_path, idx)>> ELSE <<>>
    ELSE IF expected_type = "datetime"
    THEN IF ToDatetimeRaises(value)
         THEN <<WrongDatatypeFinding(column, file_path, idx)>> ELSE <<>>
    ELSE IF expected_type = "str"
    THEN <<>>
    ELSE <<UnsupportedTypeFinding(expected_type, column, file_path)>>

RECURSIVE column_rows(_, _, _, _, _, _, _)
column_rows(errs, df, column, expected_type, file_path, nullable, i) ==
    IF i > Len(df.rows) THEN errs
    ELSE column_rows(errs \o check_cell(df.rows[i][column], column, expected_type,
                                        file_path, nullable, LineNumber(i)),
                     df, column, expected_type, file_path, nullable, i + 1)

\* SourceValidator._validate_column_type: df[column] raises KeyError for a
\* column the frame does not hold, which the outer handler turns into a finding.
validate_column_type(errs, df, column, expected_type, file_path, nullable) ==
    IF column \notin Range(df.cols)
    THEN Append(errs, FileFinding("error",
                                  <<"Error validating column {}: {}", column, "KeyError">>,
                                  file_path, ""))
    ELSE column_rows(errs, df, column, expected_type, file_path, nullable, 1)

(***************************************************************************)
(* Reading a file and checking its columns                                 *)
(***************************************************************************)
UnsupportedFormatFinding(file_path) ==
    FileFinding("error", <<"Unsupported file format: {}">> \o file_path, file_path, "")

FailedToReadFinding(file_path) ==
    FileFinding("error", <<"Failed to read {}: {}">> \o file_path \o <<"ParserError">>,
                file_path, "")

MissingColumnFinding(col, file_path) ==
    FileFinding("error", <<"Required column '{}' is missing", col>>, file_path, "")

ExtraColumnFinding(col, file_path) ==
    FileFinding("warning", <<"Unexpected column '{}' found", col>>, file_path, "")

\* [col for col in required if col not in df.columns]
MissingColumns(required, df) == SelectSeq(required, LAMBDA col : col \notin Range(df.cols))

\* a slip: the extra-column check left out
ExtraColumns_None(required, df) == <<>>

\* [col for col in df.columns if col not in required_columns.keys()]
ExtraColumns(required, df) == SelectSeq(df.cols, LAMBDA col : col \notin Range(required))

\* `for col in missing: self.errors.append(...)`
MissingColumnFindings(cols, file_path) ==
    [i \in 1..Len(cols) |-> MissingColumnFinding(cols[i], file_path)]

\* `for col in extra: self.errors.append(...)`
ExtraColumnFindings(cols, file_path) ==
    [i \in 1..Len(cols) |-> ExtraColumnFinding(cols[i], file_path)]

\* the entry pd.read_csv(file_path) reads
Entry(tree, file_path) ==
    tree.dirs[FolderOf(PathParent(file_path))].entries[PathName(file_path)]

\* RawValidator._validate_columns
raw_validate_columns(errs, tree, file_path, required_columns) ==
    IF Suffix(PathName(file_path)) # ".csv"
    THEN Append(errs, UnsupportedFormatFinding(file_path))
    ELSE IF ~Entry(tree, file_path).readable
    THEN Append(errs, FailedToReadFinding(file_path))
    ELSE errs \o MissingColumnFindings(
                     MissingColumns(required_columns, Entry(tree, file_path)), file_path)

\* the loop over required_columns.items() calling _validate_column_type
RECURSIVE schema_columns(_, _, _, _, _)
schema_columns(errs, df, required_columns, file_path, i) ==
    IF i > Len(required_columns) THEN errs
    ELSE LET column == required_columns[i][1]
             requirements == required_columns[i][2]
         IN  schema_columns(
                 validate_column_type(errs, df, column, requirements["type"], file_path,
                                      Get(requirements, "nullable", FALSE)),
                 df, required_columns, file_path, i + 1)

\* a slip: the `return` after the missing-column findings left out
StopsOnMissing_Never(missing) == FALSE

\* `if missing: ... return`
StopsOnMissing(missing) == missing # <<>>

\* SourceValidator._validate_file_schema
validate_file_schema(errs, tree, file_path, required_columns) ==
    IF Suffix(PathName(file_path)) # ".csv"
    THEN Append(errs, UnsupportedFormatFinding(file_path))
    ELSE IF ~Entry(tree, file_path).readable
    THEN Append(errs, FailedToReadFinding(file_path))
    ELSE LET df == Entry(tree, file_path)
             missing == MissingColumns(Keys(required_columns), df)
             extra == ExtraColumns(Keys(required_columns), df)
             reported == errs \o MissingColumnFindings(missing, file_path)
         IN  IF StopsOnMissing(missing) THEN reported
             ELSE schema_columns(reported \o ExtraColumnFindings(extra, file_path),
                                 df, required_columns, file_path, 1)

(***************************************************************************)
(* _check_files                                                            *)
(***************************************************************************)
\* the loop `for file_path in folder_path.iterdir()` over one listing
RECURSIVE raw_folder_files(_, _, _, _, _)
raw_folder_files(errs, tree, folder_path, required_columns, entries) ==
    IF entries = <<>> THEN errs
    ELSE LET file_path == JoinPath(folder_path, Head(entries))
             checked == IF Entry(tree, file_path).isfile
                        THEN raw_validate_columns(errs, tree, file_path, required_columns)
                        ELSE errs
         IN  raw_folder_files(checked, tree, folder_path, required_columns, Tail(entries))

\* RawValidator._check_files from its i-th folder on; order[folder] is the order
\* in which iterdir() yields the entries of the folder.
RECURSIVE raw_check_files(_, _, _, _, _)
raw_check_files(errs, tree, file_requirements, order, i) ==
    IF i > Len(file_requirements) THEN [errors |-> errs, raised |-> FALSE]
    ELSE LET folder == file_requirements[i][1]
             requirements == file_requirements[i][2]
             folder_path == JoinPath(tree.base, folder)
         IN  IF ~FolderExists(tree, folder)
             THEN raw_check_files(errs, tree, file_requirements, order, i + 1)
             ELSE IF ListingRaises(tree, folder)
             THEN [errors |-> errs, raised |-> TRUE]
             ELSE raw_check_files(
                      raw_folder_files(errs, tree, folder_path,
                                       requirements.required_columns, order[folder]),
                      tree, file_requirements, order, i + 1)

\* a slip: the missing file reported without its name
MissingFileFinding_NoFileName(file_name, folder_path) ==
    Finding("error", <<"Required file '{}' is missing", file_name>>, "",
            folder_path, "")

MissingFileFinding(file_name, folder_path) ==
    Finding("error", <<"Required file '{}' is missing", file_name>>, file_name,
            folder_path, "")

\* the loop `for file_name, requirements in file_requirements.items()`
RECURSIVE source_folder_files(_, _, _, _, _)
source_folder_files(errs, tree, folder, file_requirements, j) ==
    IF j > Len(file_requirements) THEN errs
    ELSE LET file_name == file_requirements[j][1]
             requirements == file_requirements[j][2]
             folder_path == JoinPath(tree.base, folder)
             file_path == JoinPath(folder_path, file_name)
             checked == IF ~FileExists(tree, folder, file_name)
                        THEN Append(errs, MissingFileFinding(file_name, folder_path))
                        ELSE validate_file_schema(errs, tree, file_path,
                                                  requirements.columns)
         IN  source_folder_files(checked, tree, folder, file_requirements, j + 1)

\* SourceValidator._check_files from its i-th folder on
RECURSIVE source_check_files(_, _, _, _)
source_check_files(errs, tree, folder_file_requirements, i) ==
    IF i > Len(folder_file_requirements) THEN errs
    ELSE LET folder == folder_file_requirements[i][1]
             file_requirements == folder_file_requirements[i][2]
         IN  IF ~FolderExists(tree, folder)
             THEN source_check_files(errs, tree, folder_file_requirements, i + 1)
             ELSE source_check_files(
                      source_folder_files(errs, tree, folder, file_requirements, 1),
                      tree, folder_file_requirements, i + 1)

(***************************************************************************)
(* Configurations and file trees of the model                              *)
(***************************************************************************)
RawConfig ==
    [required_folders |-> <<"a", "b">>,
     file_requirements |-> << <<"a", [required_columns |-> <<"id", "ts">>]>> >>]

SourceConfig(id_requirements) ==
    [required_folders |-> <<"a", "b">>,
     folder_file_requirements |->
        << <<"a", << <<"x.csv", [columns |-> << <<"id", id_requirements>>,
                                                <<"ts", [type |-> "datetime"]>> >>]>>,
                     <<"y.csv", [columns |-> << <<"name", [type |-> "str"]>> >>]>>,
                     <<"z.txt", [columns |-> << <<"id", [type |-> "int"]>> >>]>> >> >> >>]

TypeTags == {"int", "float", "str", "bool"}

Configs(k) ==
    IF k = "raw" THEN {RawConfig}
    ELSE {SourceConfig([type |-> t, nullable |-> n]) : t \in TypeTags, n \in BOOLEAN}

\* The rows a file of the model can hold: an empty id cell, a well-formed row,
\* text in the id column, text in the ts column.
RowKinds ==
    {[id |-> "null", ts |-> "date", extra |-> "text"],
     [id |-> "num", ts |-> "date", extra |-> "text"],
     [id |-> "text", ts |-> "date", extra |-> "text"],
     [id |-> "num", ts |-> "text", extra |-> "text"]}

ColumnLists == {<<"id", "ts">>, <<"id", "ts", "extra">>, <<"id">>, <<"id", "extra">>}

RowsOver(cols) == {[col \in Range(cols) |-> r[col]] : r \in RowKinds}

Frame(cols, rows) == [isfile |-> TRUE, readable |-> TRUE, cols |-> cols, rows |-> rows]

Unreadable == [isfile |-> TRUE, readable |-> FALSE, cols |-> <<>>, rows |-> <<>>]

Subfolder == [isfile |-> FALSE, readable |-> FALSE, cols |-> <<>>, rows |-> <<>>]

\* the data frames of at most n rows
Frames(n) ==
    UNION {{Frame(cols, rows) : rows \in SeqsUpTo(RowsOver(cols), n)} :
             cols \in ColumnLists}

NameFrame == Frame(<<"name">>, << [name |-> "text"] >>)

\* what a directory entry of each name can be
Choices(name, n) ==
    CASE name = "x.csv" -> Frames(n) \cup {Unreadable}
      [] name = "y.csv" -> {NameFrame}
      [] name = "z.txt" -> {Frame(<<"id">>, <<>>)}
      [] name = "sub" -> {Subfolder}

\* the entry of that name, or no entry
Optional(name, n) == {<<>>} \cup {name :> e : e \in Choices(name, n)}

AbsentDir == [st |-> "absent", entries |-> <<>>]

DirsA(n) ==
    {AbsentDir} \cup
    {[st |-> "noperm", entries |-> <<>>]} \cup
    {[st |-> "dir", entries |-> x @@ y @@ z] :
        x \in Optional("x.csv", n), y \in Optional("y.csv", n), z \in Optional("z.txt", n)}

DirsB == {AbsentDir} \cup {[st |-> "dir", entries |-> e] : e \in Optional("sub", 0)}

\* base_path as given to validate(): Path("data"), or Path(".") written <<>>
BasePaths == {<<>>, <<"data">>}

\* the trees whose files hold at most n rows; under a base path that does not
\* exist there is nothing
Trees(n) ==
    {[base |-> <<"data">>, baseExists |-> FALSE, dirs |-> [f \in Folders |-> AbsentDir]]} \cup
    {[base |-> base, baseExists |-> TRUE, dirs |-> [a |-> da, b |-> db]] :
        base \in BasePaths, da \in DirsA(n), db \in DirsB}

\* the orders in which iterdir() can yield each folder's entries; the order is
\* arbitrary, and the same on every listing of an unchanged folder
Listings(tree) ==
    {[a |-> oa, b |-> ob] : oa \in Orders(EntryNames(tree, "a")),
                            ob \in Orders(EntryNames(tree, "b"))}

(***************************************************************************)
(* The validator object: construction and the steps of validate()          *)
(***************************************************************************)
Init ==
    /\ kind \in {"raw", "source"}
    /\ config \in Configs(kind)
    /\ fs \in Trees(IF kind = "raw" THEN MaxRawRows ELSE MaxRows)
    /\ listing \in IF kind = "raw" THEN Listings(fs)
                   ELSE {CHOOSE order \in Listings(fs) : TRUE}
    /\ errors = <<>>
    /\ pc = "check_folders"
    /\ mark = 0
    /\ report_dir = FALSE
    /\ reports = <<>>

\* self._check_folders(base_path, ...["required_folders"])
CheckFolders ==
    /\ pc = "check_folders"
    /\ LET r == check_folders(errors, fs, config.required_folders, 1)
       IN  /\ errors' = r.errors
           /\ pc' = IF r.raised THEN "raised" ELSE "check_files"
    /\ UNCHANGED <<kind, config, fs, listing, mark, report_dir, reports>>

\* RawValidator: self._check_files(base_path)
RawCheckFiles ==
    /\ pc = "check_files"
    /\ kind = "raw"
    /\ LET r == raw_check_files(errors, fs, config.file_requirements, listing, 1)
       IN  /\ errors' = r.errors
           /\ pc' = IF r.raised THEN "raised" ELSE "generate_report"
    /\ UNCHANGED <<kind, config, fs, listing, mark, report_dir, reports>>

\* SourceValidator: self._check_files(base_path)
SourceCheckFiles ==
    /\ pc = "check_files"
    /\ kind = "source"
    /\ errors' = source_check_files(errors, fs, config.folder_file_requirements, 1)
    /\ pc' = "generate_report"
    /\ UNCHANGED <<kind, config, fs, listing, mark, report_dir, reports>>

\* report_dir.mkdir(exist_ok=True) raises FileNotFoundError when base_path does
\* not exist
MkdirRaises(tree) == ~tree.baseExists

\* self._generate_report(base_path, prefix=...)
GenerateReport ==
    /\ pc = "generate_report"
    /\ IF MkdirRaises(fs)
       THEN /\ pc' = "raised"
            /\ UNCHANGED <<report_dir, reports>>
       ELSE /\ report_dir' = TRUE
            /\ reports' = Append(reports, errors)
            /\ pc' = "returned"
    /\ UNCHANGED <<kind, config, fs, listing, errors, mark>>

\* validate() called once more on the same validator object
ValidateAgain ==
    /\ pc = "returned"
    /\ Len(reports) < MaxRuns
    /\ pc' = "check_folders"
    /\ mark' = Len(errors)
    /\ UNCHANGED <<kind, config, fs, listing, errors, report_dir, reports>>

Next ==
    \/ CheckFolders
    \/ RawCheckFiles
    \/ SourceCheckFiles
    \/ GenerateReport
    \/ ValidateAgain

Spec == Init /\ [][Next]_vars

(***************************************************************************)
(* What the properties below read off a state                              *)
(***************************************************************************)
\* the findings appended by the validate() call in progress
RunFindings == SubSeq(errors, mark + 1, Len(errors))

FoldersChecked == pc \in {"check_files", "generate_report", "returned"}
FilesChecked == pc \in {"generate_report", "returned"}

\* text of the path of a folder under the base path
FolderText(folder) == fs.base \o <<folder>>

\* the findings of this run about one file of a folder
FileFindings(folder, name) ==
    SelectSeq(RunFindings,
              LAMBDA f : f.file_name = name /\ f.folder_name = FolderText(folder))

\* the findings of this run about a folder as such
FolderFindings(folder) ==
    SelectSeq(RunFindings, LAMBDA f : f.file_name = "" /\ f.error_text[2] = folder)

IsDir(folder) == fs.baseExists /\ fs.dirs[folder].st = "dir"

\* the folders with file requirements, and the files checked in each
CheckedFolders ==
    IF kind = "raw" THEN Range(Keys(config.file_requirements))
    ELSE Range(Keys(config.folder_file_requirements))

Lookup(items, key) == items[CHOOSE i \in 1..Len(items) : items[i][1] = key][2]

ExpectedFiles(folder) == Range(Keys(Lookup(config.folder_file_requirements, folder)))

\* the declared columns of a file: name -> requirements (source), names (raw)
Declared(folder, name) == Lookup(Lookup(config.folder_file_requirements, folder), name).columns

RequiredNames(folder, name) ==
    IF kind = "raw" THEN Range(Lookup(config.file_requirements, folder).required_columns)
    ELSE Range(Keys(Declared(folder, name)))

\* the files of a folder that the run loads into a data frame
Loaded(folder) ==
    IF ~IsDir(folder) THEN {}
    ELSE {name \in DOMAIN fs.dirs[folder].entries :
            /\ fs.dirs[folder].entries[name].isfile
            /\ fs.dirs[folder].entries[name].readable
            /\ name \in {"x.csv", "y.csv"}
            /\ kind = "source" => name \in ExpectedFiles(folder)}

FrameOf(folder, name) == fs.dirs[folder].entries[name]

MissingOf(folder, name) ==
    RequiredNames(folder, name) \ Range(FrameOf(folder, name).cols)

ExtraOf(folder, name) ==
    Range(FrameOf(folder, name).cols) \ RequiredNames(folder, name)

IsNullable(requirements) ==
    "nullable" \in DOMAIN requirements /\ requirements["nullable"] = TRUE

\* a cell the declared type rejects
FailsType(requirements, value) ==
    /\ value # "null"
    /\ \/ requirements["type"] \in {"int", "float"} /\ value \in {"date", "text"}
       \/ requirements["type"] = "datetime" /\ value = "text"

\* the findings about one column at the line of the n-th data row
CellFindings(folder, name, column, n) ==
    SelectSeq(FileFindings(folder, name),
              LAMBDA f : f.line_number = ToString(n + 1) /\ f.error_text[2] = column)

(***************************************************************************)
(* C1: a loaded file that lacks required columns gets exactly one error    *)
(* "Required column '{name}' is missing" per missing column, in both       *)
(* modes, and no other finding: no extra-column warning and no column-level *)
(* finding, even for the required columns it holds.                        *)
(***************************************************************************)
C1_MissingColumnsOnly ==
    FilesChecked =>
        \A folder \in CheckedFolders : \A name \in Loaded(folder) :
            MissingOf(folder, name) # {} =>
                LET found == FileFindings(folder, name)
                IN  /\ Len(found) = Cardinality(MissingOf(folder, name))
                    /\ \A col \in MissingOf(folder, name) :
                          \E i \in 1..Len(found) :
                              found[i] = [error_level |-> "error",
                                          error_text |-> <<"Required column '{}' is missing", col>>,
                                          file_name |-> name,
                                          folder_name |-> FolderText(folder),
                                          line_number |-> ""]

\* a source run over x.csv with columns id, extra: ts is missing, extra is
\* unexpected, and the id cell would fail its int check
C1_Witness ==
    /\ FilesChecked /\ kind = "source" /\ IsDir("a")
    /\ "x.csv" \in Loaded("a")
    /\ FrameOf("a", "x.csv").cols = <<"id", "extra">>
    /\ Len(FrameOf("a", "x.csv").rows) = 1
    /\ FrameOf("a", "x.csv").rows[1]["id"] = "text"
    /\ Declared("a", "x.csv")[1][2]["type"] = "int"
    /\ Len(FileFindings("a", "x.csv")) = 1

ExtraWarnings(folder, name, col) ==
    SelectSeq(FileFindings(folder, name),
              LAMBDA f : f.error_text = <<"Unexpected column '{}' found", col>>)

\* a RawValidator run holds no extra-column warning
NoExtraWarningInRaw ==
    kind = "raw" =>
        \A i \in 1..Len(RunFindings) :
            RunFindings[i].error_text[1] # "Unexpected column '{}' found"

(***************************************************************************)
(* C3 as stated: in SOURCE mode every column of a loaded file that is not  *)
(* in the requirement mapping gets one warning "Unexpected column '{name}'  *)
(* found"; RAW mode never emits one.                                        *)
(***************************************************************************)
C3_ExtraAlwaysWarned ==
    FilesChecked =>
        /\ NoExtraWarningInRaw
        /\ kind = "source" =>
              \A folder \in CheckedFolders : \A name \in Loaded(folder) :
                  \A col \in ExtraOf(folder, name) :
                      Len(ExtraWarnings(folder, name, col)) = 1

\* position of the last warning of a sequence of findings (0 if none)
LastWarning(findings) ==
    LET hits == {i \in 1..Len(findings) : findings[i].error_level = "warning"}
    IN  IF hits = {} THEN 0 ELSE CHOOSE i \in hits : \A j \in hits : j <= i

(***************************************************************************)
(* C3 amended: in SOURCE mode every unexpected column of a loaded file     *)
(* that holds all its required columns gets exactly one warning            *)
(* "Unexpected column '{name}' found", with empty line number, and the     *)
(* column-level checks of the declared columns still run after the         *)
(* warnings: each disallowed empty cell and each cell its type rejects has *)
(* its finding behind the last warning.  RAW mode never emits the warning. *)
(***************************************************************************)
C3_ExtraWarnedWhenComplete ==
    FilesChecked =>
        /\ NoExtraWarningInRaw
        /\ kind = "source" =>
              \A folder \in CheckedFolders : \A name \in Loaded(folder) :
                  MissingOf(folder, name) = {} =>
                      LET found == FileFindings(folder, name)
                          lastWarning == LastWarning(found)
                      IN  /\ \A col \in ExtraOf(folder, name) :
                                ExtraWarnings(folder, name, col) =
                                    << [error_level |-> "warning",
                                        error_text |-> <<"Unexpected column '{}' found", col>>,
                                        file_name |-> name,
                                        folder_name |-> FolderText(folder),
                                        line_number |-> ""] >>
                          /\ lastWarning = Cardinality(ExtraOf(folder, name))
                          /\ \A k \in 1..Len(Declared(folder, name)) :
                                \A n \in 1..Len(FrameOf(folder, name).rows) :
                                    LET column == Declared(folder, name)[k][1]
                                        requirements == Declared(folder, name)[k][2]
                                        value == FrameOf(folder, name).rows[n][column]
                                    IN  (\/ value = "null" /\ ~IsNullable(requirements)
                                         \/ FailsType(requirements, value)) =>
                                            \E i \in (lastWarning + 1)..Len(found) :
                                                /\ found[i].line_number = ToString(n + 1)
                                                /\ found[i].error_text[2] = column

\* x.csv holds id, ts and the unexpected column extra; its id cell "text" is
\* rejected by int, and both the warning and the datatype error are reported
C3_Witness ==
    /\ FilesChecked /\ kind = "source"
    /\ "x.csv" \in Loaded("a")
    /\ FrameOf("a", "x.csv").cols = <<"id", "ts", "extra">>
    /\ Len(FrameOf("a", "x.csv").rows) = 1
    /\ FrameOf("a", "x.csv").rows[1]["id"] = "text"
    /\ Declared("a", "x.csv")[1][2]["type"] = "int"
    /\ Len(ExtraWarnings("a", "x.csv", "extra")) = 1
    /\ Len(CellFindings("a", "x.csv", "id", 1)) = 1

(***************************************************************************)
(* C4 as stated: a required folder that does not exist gets exactly one    *)
(* finding {error, "Required folder '{folder}' is missing", '', folder,    *)
(* ''}: folder_name is the configured name.                                *)
(***************************************************************************)
C4_FolderNameIsConfiguredName ==
    FoldersChecked =>
        \A folder \in Range(config.required_folders) :
            ~(fs.baseExists /\ fs.dirs[folder].st # "absent") =>
                FolderFindings(folder) =
                    << [error_level |-> "error",
                        error_text |-> <<"Required folder '{}' is missing", folder>>,
                        file_name |-> "",
                        folder_name |-> <<folder>>,
                        line_number |-> ""] >>

(***************************************************************************)
(* C4 amended: a required folder that does not exist gets exactly one      *)
(* finding, with severity error, text "Required folder '{folder}' is       *)
(* missing", empty file_name, empty line_number, and folder_name equal to  *)
(* the text of the path base_path/folder (the configured name only when    *)
(* the base path is the current directory).                                *)
(***************************************************************************)
C4_FolderMissing ==
    FoldersChecked =>
        \A folder \in Range(config.required_folders) :
            ~(fs.baseExists /\ fs.dirs[folder].st # "absent") =>
                FolderFindings(folder) =
                    << [error_level |-> "error",
                        error_text |-> <<"Required folder '{}' is missing", folder>>,
                        file_name |-> "",
                        folder_name |-> fs.base \o <<folder>>,
                        line_number |-> ""] >>

\* folder a is absent under the existing base path data, and reported as data/a
C4_Witness ==
    /\ FoldersChecked
    /\ fs.baseExists /\ fs.base = <<"data">>
    /\ fs.dirs["a"].st = "absent"
    /\ Len(FolderFindings("a")) = 1
    /\ FolderFindings("a")[1].folder_name = <<"data", "a">>

(***************************************************************************)
(* C5: a required folder that exists with zero entries gets exactly one    *)
(* folder-level finding and it is a warning; a folder with at least one    *)
(* entry gets none; the folder-missing error and the folder-empty warning  *)
(* are never both emitted for a folder in one run.                         *)
(***************************************************************************)
C5_FolderEmpty ==
    FoldersChecked =>
        \A folder \in Range(config.required_folders) :
            LET found == FolderFindings(folder)
            IN  /\ (IsDir(folder) /\ DOMAIN fs.dirs[folder].entries = {}) =>
                       /\ Len(found) = 1
                       /\ found[1].error_level = "warning"
                       /\ found[1].error_text = <<"Folder '{}' does not contain any file", folder>>
                /\ (IsDir(folder) /\ DOMAIN fs.dirs[folder].entries # {}) => found = <<>>
                /\ ~(/\ \E i \in 1..Len(found) :
                           found[i].error_text[1] = "Required folder '{}' is missing"
                     /\ \E i \in 1..Len(found) :
                           found[i].error_text[1] = "Folder '{}' does not contain any file")

\* folder b exists and is empty while folder a holds a file: one warning for b,
\* nothing for a
C5_Witness ==
    /\ FoldersChecked
    /\ IsDir("b") /\ DOMAIN fs.dirs["b"].entries = {}
    /\ IsDir("a") /\ DOMAIN fs.dirs["a"].entries # {}
    /\ Len(FolderFindings("b")) = 1
    /\ FolderFindings("b")[1].error_level = "warning"
    /\ FolderFindings("a") = <<>>

\* the datatype errors about one column at the line of the n-th data row
WrongDatatype(folder, name, column, n) ==
    SelectSeq(CellFindings(folder, name, column, n),
              LAMBDA f : f.error_text = <<"Wrong datatype for the column {}", column>>)

C7_NeverRaises == pc # "raised"

(***************************************************************************)
(* C8: a second validate() over the unchanged tree, on the same validator  *)
(* object, hands the report the same finding sequence as the first: the    *)
(* findings of that run and none carried over.                             *)
(***************************************************************************)
C8_SecondReportEqualsFirst ==
    \A k \in 2..Len(reports) : reports[k] = reports[1]

(***************************************************************************)
(* C9: a declared column whose type tag is none of int, float, datetime,   *)
(* str gets exactly one error "Unsupported data type '{type}' for column   *)
(* {name}" per file, whatever the number of rows and whichever cells are   *)
(* empty, and no row-level finding.                                        *)
(***************************************************************************)
C9_UnsupportedOncePerColumn ==
    (FilesChecked /\ kind = "source") =>
        \A folder \in CheckedFolders : \A name \in Loaded(folder) :
            MissingOf(folder, name) = {} =>
                \A k \in 1..Len(Declared(folder, name)) :
                    LET column == Declared(folder, name)[k][1]
                        requirements == Declared(folder, name)[k][2]
                        about == SelectSeq(FileFindings(folder, name),
                                           LAMBDA f : f.error_text[Len(f.error_text)] = column)
                    IN  requirements["type"] \notin {"int", "float", "datetime", "str"} =>
                            about = << [error_level |-> "error",
                                        error_text |-> <<"Unsupported data type '{}' for column {}",
                                                         requirements["type"], column>>,
                                        file_name |-> name,
                                        folder_name |-> FolderText(folder),
                                        line_number |-> ""] >>

(***************************************************************************)
(* C10: in SOURCE mode, a folder of folder_file_requirements that is       *)
(* absent gets no file-level finding; in a folder that exists, each        *)
(* expected file that is absent gets exactly one finding, the error        *)
(* "Required file '{name}' is missing" with file_name set and line_number  *)
(* empty, and no schema finding; the other expected files are still        *)
(* checked, each against its own column requirements.                      *)
(***************************************************************************)
C10_SourceFiles ==
    (FilesChecked /\ kind = "source") =>
        \A folder \in CheckedFolders :
            IF ~(fs.baseExists /\ fs.dirs[folder].st # "absent")
            THEN \A i \in 1..Len(RunFindings) :
                    RunFindings[i].folder_name = FolderText(folder) =>
                        RunFindings[i].file_name = ""
            ELSE \A name \in ExpectedFiles(folder) :
                    LET found == FileFindings(folder, name)
                    IN  IF name \notin DOMAIN fs.dirs[folder].entries
                        THEN found = << [error_level |-> "error",
                                         error_text |-> <<"Required file '{}' is missing", name>>,
                                         file_name |-> name,
                                         folder_name |-> FolderText(folder),
                                         line_number |-> ""] >>
                        ELSE /\ \A i \in 1..Len(found) :
                                   found[i].error_text[1] # "Required file '{}' is missing"
                             /\ name \in Loaded(folder) =>
                                   {found[i].error_text[2] : i \in
                                        {j \in 1..Len(found) :
                                            found[j].error_text[1] = "Required column '{}' is missing"}}
                                   = MissingOf(folder, name)
                             /\ name \notin Loaded(folder) => Len(found) = 1

\* x.csv is absent and reported once; y.csv is present, holds its own column
\* name and gets no finding, though it lacks the columns required of x.csv
C10_Witness ==
    /\ FilesChecked /\ kind = "source" /\ IsDir("a")
    /\ "x.csv" \notin DOMAIN fs.dirs["a"].entries
    /\ "y.csv" \in Loaded("a")
    /\ Len(FileFindings("a", "x.csv")) = 1
    /\ FileFindings("a", "x.csv")[1].line_number = ""
    /\ FileFindings("a", "y.csv") = <<>>
    /\ "id" \notin Range(FrameOf("a", "y.csv").cols)

====
